---- MODULE Spec2Model ----
(***************************************************************************)
(* A model of the log fan-out core of multi-data-logger (src/main.cpp):    *)
(* the level name lookup, the two sinks (can_logger, file_logger), the     *)
(* message builder, the dispatch routine tp::log and the dispatcher        *)
(* tp::component.                                                          *)
(*                                                                         *)
(* Text is a sequence of one-character strings, so that formatting is      *)
(* computed character by character as std::format does.                    *)
(***************************************************************************)
EXTENDS Integers, Sequences, FiniteSets, TLC

----------------------------------------------------------------------------
(* Bounds of the model *)

\* sinks bound to one dispatcher (arity of the logger tuple): 1..MaxArity
MaxArity == 3
\* process calls made on one dispatcher
MaxCalls == 3
\* payload fields range over 0..MaxDim (plus the fixed payloads below)
MaxDim == 1
\* explored level values below info: -NegLevels..-1
NegLevels == 1
\* explored level values past the sentinel: count+1..count+ExtraLevels
ExtraLevels == 1

----------------------------------------------------------------------------
(* Program constants *)

max_data_size == 6

info == 0
warning == 1
error == 2
fatal == 3
count == 4

can_id == 10

\* the values a log_level object can hold that the model explores
LevelValues == (0 - NegLevels)..(count + ExtraLevels)

\* builder identifiers (can_id_t is a signed 32 bit integer)
CanIds == {-7, can_id, 255}

----------------------------------------------------------------------------
(* Text *)

Digits == <<"0", "1", "2", "3", "4", "5", "6", "7", "8", "9">>

\* std::format of an unsigned integer with "{}": decimal, no padding
RECURSIVE to_chars(_)
to_chars(n) ==
    IF n < 10 THEN <<Digits[n + 1]>>
    ELSE to_chars(n \div 10) \o <<Digits[(n % 10) + 1]>>

\* std::format of a signed integer with "{}"
int_to_chars(n) == IF n < 0 THEN <<"-">> \o to_chars(0 - n) ELSE to_chars(n)

\* std::format of a range with "{}": "[e1, e2, ...]"
RECURSIVE join(_)
join(elems) ==
    IF Len(elems) = 0 THEN <<>>
    ELSE IF Len(elems) = 1 THEN to_chars(elems[1])
    ELSE to_chars(elems[1]) \o <<",", " ">> \o join(Tail(elems))

range_to_chars(arr) == <<"[">> \o join(arr) \o <<"]">>

\* std::format(fmt, args...): each "{}" is replaced by the next argument,
\* already formatted to text; every other character is copied
RECURSIVE vformat(_, _)
vformat(fmt, args) ==
    IF Len(fmt) = 0 THEN <<>>
    ELSE IF Len(fmt) >= 2 /\ fmt[1] = "{" /\ fmt[2] = "}"
    THEN args[1] \o vformat(SubSeq(fmt, 3, Len(fmt)), Tail(args))
    ELSE <<fmt[1]>> \o vformat(Tail(fmt), args)

print(fmt, args) == vformat(fmt, args)

println(fmt, args) == vformat(fmt, args) \o <<"\n">>

----------------------------------------------------------------------------
(* log_level and to_string *)

names ==
    << <<"i", "n", "f", "o">>,
       <<"w", "a", "r", "n", "i", "n", "g">>,
       <<"e", "r", "r", "o", "r">>,
       <<"f", "a", "t", "a", "l">> >>

\* outcomes of to_string that are not a name
Abort == <<"<abort>">>
Crash == <<"<crash>">>
Garbage == <<"<garbage>">>

\* to_string with the assertion compiled out: the array is indexed anyway
to_string_unchecked(level) ==
    IF level >= 0 /\ level < count THEN {names[level + 1]}
    ELSE {names[fatal + 1], Garbage}

\* The set of outcomes of to_string(level).  The assertion aborts when
\* level >= count.  A negative level passes the assertion and indexes the
\* array out of bounds with a huge size_t: undefined behaviour, which may
\* return a view that happens to read as a name, a view of other memory, or
\* crash.
to_string(level) ==
    IF ~(level < count) THEN {Abort}
    ELSE IF level >= 0 THEN {names[level + 1]}
    ELSE {names[info + 1], Garbage, Crash}

----------------------------------------------------------------------------
(* Messages and the message builder *)

can_format_id ==
    <<"{", "}", ":", " ", "c", "a", "n", " ", "l", "o", "g", "g", "e", "r", ":", " ",
      "i", "d", ":", " ", "{", "}", ",", " ", "d", "a", "t", "a", ":", " ", "{", "}">>

\* can_logger::log: "{}: can logger: can id: {}, data: {}"
can_format ==
    <<"{", "}", ":", " ", "c", "a", "n", " ", "l", "o", "g", "g", "e", "r", ":", " ",
      "c", "a", "n", " ", "i", "d", ":", " ", "{", "}", ",", " ", "d", "a", "t", "a",
      ":", " ", "{", "}">>

\* file_logger::log: "{}: file logger: "
prefix_format ==
    <<"{", "}", ":", " ", "f", "i", "l", "e", " ", "l", "o", "g", "g", "e", "r", ":",
      " ">>

\* create_message: "input data: length: {}, width: {}, height: {}"
format ==
    <<"i", "n", "p", "u", "t", " ", "d", "a", "t", "a", ":", " ", "l", "e", "n", "g",
      "t", "h", ":", " ", "{", "}", ",", " ", "w", "i", "d", "t", "h", ":", " ", "{",
      "}", ",", " ", "h", "e", "i", "g", "h", "t", ":", " ", "{", "}">>

\* can_data_t{a, b, c}: aggregate initialisation of std::array<size_t, 6>;
\* the elements without an initialiser are value-initialised to 0
can_data_garbage(init) ==
    [k \in 1..max_data_size |-> IF k <= Len(init) THEN init[k] ELSE init[1]]

can_data_t(init) ==
    [k \in 1..max_data_size |-> IF k <= Len(init) THEN init[k] ELSE 0]

NoMessage == [type |-> "none"]

create_message_swapped(CanId, Logger, input) ==
    IF Logger = "can_logger"
    THEN [type |-> "can_logger::message", can_id |-> CanId,
          data |-> can_data_t(<<input.length, input.height, input.width>>)]
    ELSE [type |-> "file_logger::message", format |-> format,
          args |-> <<input.length, input.height, input.width>>]

create_message_wrong_kind(CanId, Logger, input) ==
    IF Logger = "file_logger"
    THEN [type |-> "can_logger::message", can_id |-> CanId,
          data |-> can_data_t(<<input.length, input.width, input.height>>)]
    ELSE [type |-> "file_logger::message", format |-> format,
          args |-> <<input.length, input.width, input.height>>]

\* message_builder<CanId>::create_message<Logger>(data)
create_message(CanId, Logger, input) ==
    IF Logger = "can_logger"
    THEN [type |-> "can_logger::message", can_id |-> CanId,
          data |-> can_data_t(<<input.length, input.width, input.height>>)]
    ELSE [type |-> "file_logger::message", format |-> format,
          args |-> <<input.length, input.width, input.height>>]

----------------------------------------------------------------------------
(* The sinks.  A log call yields a set of outcomes                         *)
(*   [name, written, result]:                                              *)
(* name is what to_string returned, written the chunks that reached        *)
(* stdout, result "ok" when log returned, "throw" when a write failed      *)
(* (std::print and std::println throw std::system_error then), "abort"     *)
(* when the assertion of to_string failed, "crash" for the crash outcome   *)
(* of undefined behaviour.                                                 *)

Failed(name) ==
    IF name = Abort THEN {[name |-> name, written |-> <<>>, result |-> "abort"]}
    ELSE IF name = Crash THEN {[name |-> name, written |-> <<>>, result |-> "crash"]}
    ELSE {}

\* can_logger::log<Level>(msg)
can_logger_log(level, msg) ==
    UNION {
        IF name \in {Abort, Crash} THEN Failed(name)
        ELSE { [name |-> name,
                written |-> <<println(can_format,
                                      <<name, int_to_chars(msg.can_id),
                                        range_to_chars(msg.data)>>)>>,
                result |-> "ok"],
               [name |-> name, written |-> <<>>, result |-> "throw"] }
        : name \in to_string(level) }

\* file_logger::log<Level>(msg): the prefix is printed first, then the
\* message's format with its arguments
file_logger_log(level, msg) ==
    UNION {
        IF name \in {Abort, Crash} THEN Failed(name)
        ELSE LET prefix == print(prefix_format, <<name>>)
                 body == println(msg.format,
                                 [k \in 1..Len(msg.args) |-> to_chars(msg.args[k])])
             IN { [name |-> name, written |-> <<prefix, body>>, result |-> "ok"],
                  [name |-> name, written |-> <<prefix>>, result |-> "throw"],
                  [name |-> name, written |-> <<>>, result |-> "throw"] }
        : name \in to_string(level) }

----------------------------------------------------------------------------
(* Inputs *)

Dims == 0..MaxDim

FixedPayloads ==
    { [length |-> 1, width |-> 2, height |-> 3],
      [length |-> 120, width |-> 45, height |-> 7] }

\* input_data values
Payloads ==
    { [length |-> l, width |-> w, height |-> h] : l \in Dims, w \in Dims, h \in Dims }
    \cup FixedPayloads

\* the sink objects of the caller, as in main: 1 is can_logger, 2 is file_logger
Loggers == {1, 2}

\* the type of a sink object
Kind(l) == IF l = 1 THEN "can_logger" ELSE "file_logger"

\* std::tuple<Loggers &...>: an ordered list of references, kinds may repeat
LoggerTuples == UNION { [1..n -> Loggers] : n \in 1..MaxArity }

----------------------------------------------------------------------------
(* State *)

VARIABLES
    loggers_,          \* component::loggers_
    message_builder_,  \* component::message_builder_
    pc,                \* "idle", or the position inside tp::log, or how the
                       \* program ended: "terminated", "aborted", "crashed"
    Level,             \* tp::log: template argument Level
    data,              \* tp::log: parameter data
    builder,           \* tp::log: parameter builder
    loggers,           \* tp::log: parameter loggers (a copy of the tuple)
    idx,               \* tp::log: position of the fold over the tuple
    message,           \* tp::log: the local `message` of the lambda
    trace,             \* history: create_message and log calls, in order
    calls              \* history: calls of process / tp::log started so far

vars == <<loggers_, message_builder_, pc, Level, data, builder, loggers, idx,
          message, trace, calls>>

members == <<loggers_, message_builder_>>

NoData == [length |-> 0, width |-> 0, height |-> 0]

\* no call of tp::log is active
NoFrame ==
    /\ Level = info
    /\ data = NoData
    /\ builder = [CanId |-> can_id]
    /\ loggers = <<>>
    /\ idx = 0
    /\ message = NoMessage

\* component's constructor: loggers_{std::tie(loggers...)}; the builder's
\* identifier is the class constant can_id
Init ==
    /\ loggers_ \in LoggerTuples
    /\ message_builder_ = [CanId |-> can_id]
    /\ pc = "idle"
    /\ NoFrame
    /\ trace = <<>>
    /\ calls = 0

----------------------------------------------------------------------------
(* component::process *)

process_warning(input) ==
    /\ pc = "idle"
    /\ calls < MaxCalls
    /\ calls' = calls + 1
    /\ Level' = warning
    /\ data' = input
    /\ builder' = message_builder_
    /\ loggers' = loggers_
    /\ idx' = 1
    /\ pc' = "create_message"
    /\ UNCHANGED <<loggers_, message_builder_, message, trace>>

process_moves_loggers(input) ==
    /\ pc = "idle"
    /\ calls < MaxCalls
    /\ calls' = calls + 1
    /\ Level' = info
    /\ data' = input
    /\ builder' = message_builder_
    /\ loggers' = loggers_
    /\ loggers_' = <<>>
    /\ idx' = 1
    /\ pc' = "create_message"
    /\ UNCHANGED <<message_builder_, message, trace>>

\* process(input): log<log_level::info>(input, message_builder_, loggers_)
process(input) ==
    /\ pc = "idle"
    /\ calls < MaxCalls
    /\ calls' = calls + 1
    /\ Level' = info
    /\ data' = input
    /\ builder' = message_builder_
    /\ loggers' = loggers_
    /\ idx' = 1
    /\ pc' = "create_message"
    /\ UNCHANGED <<loggers_, message_builder_, message, trace>>

----------------------------------------------------------------------------
(* tp::log: the fold (log(loggers_), ...) over the tuple, left to right *)

\* the next element of the fold expression
fold_next(i) == i + 1

fold_done_early(i) == i >= 1

\* the fold has applied the lambda to every element
fold_done(i) == i >= Len(loggers)

\* const auto message = builder.template create_message<logger_t>(data)
build ==
    /\ pc = "create_message"
    /\ message' = create_message(builder.CanId, Kind(loggers[idx]), data)
    /\ trace' = Append(trace, [op |-> "create_message", call |-> calls, idx |-> idx,
                               logger |-> loggers[idx], CanId |-> builder.CanId,
                               data |-> data, message |-> message'])
    /\ pc' = "log"
    /\ UNCHANGED <<members, Level, data, builder, loggers, idx, calls>>

\* logger.template log<Level>(message), selected by the logger's type
logger_log(logger, level, msg) ==
    IF Kind(logger) = "can_logger" THEN can_logger_log(level, msg)
    ELSE file_logger_log(level, msg)

LogEvent(r) ==
    [op |-> "log", call |-> calls, idx |-> idx, logger |-> loggers[idx],
     level |-> Level, data |-> data, message |-> message, name |-> r.name,
     written |-> r.written, result |-> r.result]

log_returns_reuses_message ==
    /\ pc = "log"
    /\ \E r \in logger_log(loggers[idx], Level, message) :
         /\ r.result = "ok"
         /\ trace' = Append(trace, LogEvent(r))
    /\ IF fold_done(idx)
       THEN /\ pc' = "idle"
            /\ Level' = info
            /\ data' = NoData
            /\ builder' = [CanId |-> can_id]
            /\ loggers' = <<>>
            /\ idx' = 0
            /\ message' = NoMessage
       ELSE /\ pc' = "log"
            /\ idx' = fold_next(idx)
            /\ UNCHANGED <<Level, data, builder, loggers, message>>
    /\ UNCHANGED <<members, calls>>

\* the sink's log returns: the lambda ends, the fold goes on or tp::log returns
log_returns ==
    /\ pc = "log"
    /\ \E r \in logger_log(loggers[idx], Level, message) :
         /\ r.result = "ok"
         /\ trace' = Append(trace, LogEvent(r))
    /\ IF fold_done(idx)
       THEN /\ pc' = "idle"
            /\ Level' = info
            /\ data' = NoData
            /\ builder' = [CanId |-> can_id]
            /\ loggers' = <<>>
            /\ idx' = 0
            /\ message' = NoMessage
       ELSE /\ pc' = "create_message"
            /\ idx' = fold_next(idx)
            /\ message' = NoMessage
            /\ UNCHANGED <<Level, data, builder, loggers>>
    /\ UNCHANGED <<members, calls>>

\* the sink's log does not return: a failed write throws out of the noexcept
\* tp::log (std::terminate), the assertion of to_string aborts
log_fails ==
    /\ pc = "log"
    /\ \E r \in logger_log(loggers[idx], Level, message) :
         /\ r.result # "ok"
         /\ trace' = Append(trace, LogEvent(r))
         /\ pc' = CASE r.result = "throw" -> "terminated"
                    [] r.result = "abort" -> "aborted"
                    [] OTHER -> "crashed"
    /\ UNCHANGED <<members, Level, data, builder, loggers, idx, message, calls>>

Next ==
    \/ \E input \in FixedPayloads : process(input)
    \/ build
    \/ log_returns
    \/ log_fails

\* the dispatcher of the repository: component, used through process
Spec == Init /\ [][Next]_vars

----------------------------------------------------------------------------
(* tp::log called directly, with any Level, builder and tuple *)

InitLog ==
    /\ loggers_ = <<>>
    /\ message_builder_ = [CanId |-> can_id]
    /\ Level \in LevelValues
    /\ data \in Payloads
    /\ builder \in [CanId : CanIds]
    /\ loggers \in LoggerTuples
    /\ idx = 1
    /\ message = NoMessage
    /\ pc = "create_message"
    /\ trace = <<>>
    /\ calls = 1

NextLog ==
    \/ build
    \/ log_returns
    \/ log_fails

SpecLog == InitLog /\ [][NextLog]_vars

----------------------------------------------------------------------------
(* Properties *)

IsLog(e) == e.op = "log"

IsBuild(e) == e.op = "create_message"

\* the log calls made so far, in order
LogCalls == SelectSeq(trace, IsLog)

\* calls of process that have returned
Completed == IF pc = "idle" THEN calls ELSE calls - 1

ValidLevels == info..fatal

\* C1: the log calls made so far are the registered sinks in registration
\* order, repeated call after call (every sink once per call, none twice, none
\* out of order), and after k process calls have returned they are exactly k
\* repetitions of the sink list, each sink position invoked exactly k times.
C1_OncePerCallInOrder ==
    LET N == Len(loggers_)
        L == LogCalls
    IN /\ \A j \in 1..Len(L) :
            /\ L[j].idx = ((j - 1) % N) + 1
            /\ L[j].logger = loggers_[((j - 1) % N) + 1]
            /\ L[j].call = ((j - 1) \div N) + 1
       /\ pc = "idle" =>
            /\ Len(L) = calls * N
            /\ \A i \in 1..N :
                 Cardinality({j \in 1..Len(L) : L[j].idx = i}) = calls

C1_Witness ==
    /\ pc = "idle"
    /\ calls = 2
    /\ Len(loggers_) = 2
    /\ loggers_[1] = loggers_[2]
    /\ Len(LogCalls) = 4

\* C2: a failed emission never fails the dispatch: the program stops inside a
\* process call only by the abort for a Level at or past the sentinel.
C2_EmissionErrorNeverFailsDispatch ==
    pc \in {"terminated", "aborted", "crashed"} =>
        /\ pc = "aborted"
        /\ ~(Level < count)

\* C3 as stated: whenever process can be called, it can be called at every
\* valid Level.
C3_LevelIsFreeParameter ==
    (pc = "idle" /\ calls < MaxCalls) =>
        \A v \in ValidLevels :
            ENABLED (\E input \in FixedPayloads : process(input) /\ Level' = v)

\* C3, amended: process takes the payload alone; the Level of every process
\* call is info, and every sink invoked by the call receives exactly info.
C3_EverySinkReceivesInfo ==
    /\ pc # "idle" => Level = info
    /\ \A j \in 1..Len(trace) :
         IsLog(trace[j]) => /\ trace[j].level = info
                            /\ trace[j].name = <<"i", "n", "f", "o">>

C3_Witness ==
    /\ pc = "idle"
    /\ calls >= 1
    /\ \E j \in 1..Len(trace) : IsLog(trace[j]) /\ Kind(trace[j].logger) = "can_logger"
    /\ \E j \in 1..Len(trace) : IsLog(trace[j]) /\ Kind(trace[j].logger) = "file_logger"

ShapeFor(kind) ==
    IF kind = "can_logger" THEN "can_logger::message" ELSE "file_logger::message"

\* C7: the message passed to a sink's log has the shape built for that sink's
\* kind: a frame message reaches only a can_logger, a formatted message only a
\* file_logger, whatever the order and repetition of kinds in the tuple.
C7_MessageShapeMatchesSink ==
    /\ pc = "log" => message.type = ShapeFor(Kind(loggers[idx]))
    /\ \A j \in 1..Len(trace) :
         IsLog(trace[j]) => trace[j].message.type = ShapeFor(Kind(trace[j].logger))

C7_Witness ==
    /\ pc = "idle"
    /\ Len(loggers_) = 2
    /\ Kind(loggers_[1]) = "file_logger"
    /\ Kind(loggers_[2]) = "can_logger"
    /\ Len(LogCalls) = 2
    /\ LogCalls[1].message.type = "file_logger::message"
    /\ LogCalls[2].message.type = "can_logger::message"

\* C8: no step changes the dispatcher's tuple of sink references (arity, order,
\* referenced sinks) or its builder's identifier: they stay as constructed.
C8_MembersNeverChange ==
    [][loggers_' = loggers_ /\ message_builder_' = message_builder_]_vars

C8_Witness ==
    /\ pc = "idle"
    /\ calls = 2
    /\ Len(loggers_) = 2
    /\ message_builder_.CanId = can_id

----------------------------------------------------------------------------
(* Properties of the message builder and the rendering (SpecLog) *)

\* C4: the message built for a can_logger from {length = L, width = W,
\* height = H} by a builder with identifier ID is {ID, [L, W, H, 0, 0, 0]}:
\* six slots, the payload first, the three padding slots 0.
C4_FrameMessage ==
    \A j \in 1..Len(trace) :
        (IsBuild(trace[j]) /\ Kind(trace[j].logger) = "can_logger") =>
            /\ trace[j].message =
                 [type |-> "can_logger::message",
                  can_id |-> trace[j].CanId,
                  data |-> <<trace[j].data.length, trace[j].data.width,
                             trace[j].data.height, 0, 0, 0>>]
            /\ Len(trace[j].message.data) = 6

C4_Witness ==
    \E j \in 1..Len(trace) :
        /\ IsBuild(trace[j])
        /\ Kind(trace[j].logger) = "can_logger"
        /\ trace[j].CanId = 255
        /\ trace[j].data = [length |-> 120, width |-> 45, height |-> 7]
        /\ trace[j].message.data = <<120, 45, 7, 0, 0, 0>>

IsPrefix(p, t) == Len(p) <= Len(t) /\ SubSeq(t, 1, Len(p)) = p

Drop(t, n) == SubSeq(t, n + 1, Len(t))

IsDigit(c) == \E d \in 1..10 : Digits[d] = c

\* the longest prefix of t made of decimal digits
RECURSIVE DigitRun(_)
DigitRun(t) ==
    IF Len(t) > 0 /\ IsDigit(t[1]) THEN <<t[1]>> \o DigitRun(Tail(t)) ELSE <<>>

\* the number a run of decimal digits denotes
RECURSIVE from_chars(_)
from_chars(ds) ==
    IF Len(ds) = 0 THEN 0
    ELSE 10 * from_chars(SubSeq(ds, 1, Len(ds) - 1))
         + ((CHOOSE d \in 1..10 : Digits[d] = ds[Len(ds)]) - 1)

\* a decimal literal without sign, padding or leading zeros that denotes n
IsDecimalOf(ds, n) ==
    /\ Len(ds) >= 1
    /\ Len(ds) > 1 => ds[1] # "0"
    /\ from_chars(ds) = n

\* the number of "{}" placeholders of a template
RECURSIVE Placeholders(_)
Placeholders(fmt) ==
    IF Len(fmt) < 2 THEN 0
    ELSE IF fmt[1] = "{" /\ fmt[2] = "}" THEN 1 + Placeholders(Drop(fmt, 2))
    ELSE Placeholders(Tail(fmt))

Lit_length ==
    <<"i", "n", "p", "u", "t", " ", "d", "a", "t", "a", ":", " ", "l", "e", "n", "g",
      "t", "h", ":", " ">>

Lit_width == <<",", " ", "w", "i", "d", "t", "h", ":", " ">>

Lit_height == <<",", " ", "h", "e", "i", "g", "h", "t", ":", " ">>

\* t reads "input data: length: L, width: W, height: H" and a newline
ReadsAs(t, L, W, H) ==
    LET t1 == Drop(t, Len(Lit_length))
        d1 == DigitRun(t1)
        t2 == Drop(t1, Len(d1))
        t3 == Drop(t2, Len(Lit_width))
        d2 == DigitRun(t3)
        t4 == Drop(t3, Len(d2))
        t5 == Drop(t4, Len(Lit_height))
        d3 == DigitRun(t5)
        t6 == Drop(t5, Len(d3))
    IN /\ IsPrefix(Lit_length, t)
       /\ IsDecimalOf(d1, L)
       /\ IsPrefix(Lit_width, t2)
       /\ IsDecimalOf(d2, W)
       /\ IsPrefix(Lit_height, t4)
       /\ IsDecimalOf(d3, H)
       /\ t6 = <<"\n">>

\* C5: the message built for a file_logger from {length = L, width = W,
\* height = H} carries the fixed template, which has three placeholders, and
\* the values [L, W, H] in that order; the file_logger renders it to
\* "input data: length: L, width: W, height: H".
C5_FormattedMessage ==
    \A j \in 1..Len(trace) :
        LET e == trace[j] IN
        /\ (IsBuild(e) /\ Kind(e.logger) = "file_logger") =>
              /\ e.message.type = "file_logger::message"
              /\ e.message.format = Lit_length \o <<"{", "}">> \o Lit_width
                                    \o <<"{", "}">> \o Lit_height \o <<"{", "}">>
              /\ Placeholders(e.message.format) = 3
              /\ Len(e.message.args) = 3
              /\ e.message.args = <<e.data.length, e.data.width, e.data.height>>
        /\ (IsLog(e) /\ Kind(e.logger) = "file_logger" /\ e.result = "ok") =>
              /\ Len(e.written) = 2
              /\ ReadsAs(e.written[2], e.data.length, e.data.width, e.data.height)

C5_Witness ==
    \E j \in 1..Len(trace) :
        /\ IsLog(trace[j])
        /\ Kind(trace[j].logger) = "file_logger"
        /\ trace[j].result = "ok"
        /\ trace[j].data = [length |-> 120, width |-> 45, height |-> 7]
        /\ Len(trace[j].written[2]) = 46

Lowercase ==
    {"a", "b", "c", "d", "e", "f", "g", "h", "i", "j", "k", "l", "m", "n", "o", "p",
     "q", "r", "s", "t", "u", "v", "w", "x", "y", "z"}

\* C6: for a valid Level the name lookup returns a lowercase name that is the
\* name of no other valid Level and is the same at every lookup; for a Level
\* at or past the sentinel the program aborts: the sink gets no name and
\* writes nothing.
C6_NameLookup ==
    \A j \in 1..Len(trace) :
        LET e == trace[j] IN
        IsLog(e) =>
            /\ e.level \in ValidLevels =>
                 /\ e.result \in {"ok", "throw"}
                 /\ Len(e.name) >= 1
                 /\ \A k \in 1..Len(e.name) : e.name[k] \in Lowercase
                 /\ \A v \in ValidLevels \ {e.level} : e.name \notin to_string(v)
                 /\ \A i \in 1..Len(trace) :
                      (IsLog(trace[i]) /\ trace[i].level = e.level) =>
                          trace[i].name = e.name
                 /\ e.result = "ok" => IsPrefix(e.name \o <<":", " ">>, e.written[1])
            /\ e.level >= count =>
                 /\ e.result = "abort"
                 /\ e.name = Abort
                 /\ e.written = <<>>
                 /\ pc = "aborted"
                 /\ j = Len(trace)

C6_Witness ==
    /\ pc = "aborted"
    /\ Level = count
    /\ Len(trace) = 2
    /\ trace[2].result = "abort"

----------------------------------------------------------------------------
(* Properties of one dispatch, end to end *)

CanLine_info_10_123 ==
    <<"i", "n", "f", "o", ":", " ", "c", "a", "n", " ", "l", "o", "g", "g", "e", "r",
      ":", " ", "c", "a", "n", " ", "i", "d", ":", " ", "1", "0", ",", " ", "d", "a",
      "t", "a", ":", " ", "[", "1", ",", " ", "2", ",", " ", "3", ",", " ", "0", ",",
      " ", "0", ",", " ", "0", "]", "\n">>

FilePrefix_info ==
    <<"i", "n", "f", "o", ":", " ", "f", "i", "l", "e", " ", "l", "o", "g", "g", "e",
      "r", ":", " ">>

FileBody_123 ==
    <<"i", "n", "p", "u", "t", " ", "d", "a", "t", "a", ":", " ", "l", "e", "n", "g",
      "t", "h", ":", " ", "1", ",", " ", "w", "i", "d", "t", "h", ":", " ", "2", ",",
      " ", "h", "e", "i", "g", "h", "t", ":", " ", "3", "\n">>

\* the first process call was process({1, 2, 3}) on a dispatcher with the
\* sinks [can_logger, file_logger], and it has returned
MainScenarioDone ==
    /\ Len(loggers_) = 2
    /\ Kind(loggers_[1]) = "can_logger"
    /\ Kind(loggers_[2]) = "file_logger"
    /\ message_builder_.CanId = 10
    /\ Completed >= 1
    /\ trace[1].data = [length |-> 1, width |-> 2, height |-> 3]

\* everything written to stdout during call c, in order
RECURSIVE WrittenIn(_, _)
WrittenIn(t, c) ==
    IF Len(t) = 0 THEN <<>>
    ELSE (IF IsLog(t[1]) /\ t[1].call = c THEN t[1].written ELSE <<>>)
         \o WrittenIn(Tail(t), c)

\* C9: with sinks [can_logger, file_logger] and identifier 10, process of
\* {1, 2, 3} makes exactly two emissions: first the can_logger at level info
\* with message {10, [1, 2, 3, 0, 0, 0]}, then the file_logger at level info
\* with the text "input data: length: 1, width: 2, height: 3".
C9_EndToEnd ==
    MainScenarioDone =>
        LET first == SelectSeq(LogCalls, LAMBDA e : e.call = 1) IN
        /\ Len(first) = 2
        /\ Kind(first[1].logger) = "can_logger"
        /\ first[1].level = info
        /\ first[1].message.can_id = 10
        /\ first[1].message.data = <<1, 2, 3, 0, 0, 0>>
        /\ first[1].written = <<CanLine_info_10_123>>
        /\ Kind(first[2].logger) = "file_logger"
        /\ first[2].level = info
        /\ first[2].written = <<FilePrefix_info, FileBody_123>>
        /\ WrittenIn(trace, 1) = <<CanLine_info_10_123, FilePrefix_info, FileBody_123>>

C9_Witness ==
    /\ MainScenarioDone
    /\ calls = 1
    /\ Len(trace) = 4

\* C10: the trace of a dispatcher with N sinks is a sequence of pairs, a
\* create_message for sink i directly followed by the log call of sink i with
\* the message just built, for i = 1..N in registration order, all built from
\* the payload of the call; nothing is built while a log call is pending, and
\* a call that has returned made exactly N builds and N log calls.
C10_BuildThenLogPerSink ==
    LET N == Len(loggers_) IN
    /\ \A j \in 1..Len(trace) :
         LET k == (j - 1) \div 2 IN
         /\ trace[j].op = IF j % 2 = 1 THEN "create_message" ELSE "log"
         /\ trace[j].idx = (k % N) + 1
         /\ trace[j].logger = loggers_[(k % N) + 1]
         /\ trace[j].call = (k \div N) + 1
         /\ j % 2 = 0 => /\ trace[j].message = trace[j - 1].message
                         /\ trace[j].data = trace[j - 1].data
         /\ \A i \in 1..Len(trace) :
              trace[i].call = trace[j].call => trace[i].data = trace[j].data
    /\ pc = "idle" => Len(trace) = 2 * N * calls
    /\ pc = "create_message" => Len(trace) % 2 = 0
    /\ pc = "log" => /\ Len(trace) % 2 = 1
                     /\ trace[Len(trace)].idx = idx
                     /\ trace[Len(trace)].message = message
    /\ \A c \in 1..Completed :
         /\ Cardinality({j \in 1..Len(trace) : IsBuild(trace[j]) /\ trace[j].call = c}) = N
         /\ Cardinality({j \in 1..Len(trace) : IsLog(trace[j]) /\ trace[j].call = c}) = N

C10_Witness ==
    /\ pc = "idle"
    /\ calls = 1
    /\ Len(loggers_) = 2
    /\ Len(trace) = 4
    /\ trace[1].data = [length |-> 120, width |-> 45, height |-> 7]

====
